---------------------------- MODULE Spec2Model ----------------------------
(***************************************************************************)
(* Refrigeration cycle calculator: the console script                      *)
(* (refrig_cycle_calc_simple.py), the Tk GUI (refrig_cycle_calc_GUI.py)     *)
(* and the Streamlit dashboard (refrig_cycle_calc_Streamlit.py).            *)
(*                                                                         *)
(* Numbers.  The programs compute with Python floats.  A float is modelled *)
(* as an integer count of grid steps, and every multiplication or division *)
(* whose exact result is off the grid rounds to the nearest grid value,     *)
(* ties to even, as IEEE-754 arithmetic rounds to the nearest double.       *)
(* Grid steps: temperatures (K, degF) and dimensionless ratios 1/Scale;     *)
(* pressure 100 Pa and 0.01 psi; enthalpy 100 J/kg and 0.01 Btu/lbm;        *)
(* entropy 1 J/(kg K) and 0.0001 Btu/(lbm degF); density 0.01 kg/m^3 and    *)
(* 0.001 lbm/ft^3; mass flow 0.00001 kg/s and 0.01 lbm/min; power 1 W and   *)
(* 1 Btu/hr.                                                                *)
(*                                                                         *)
(* Sources.  refrig_cycle_calc_GUI.py and refrig_cycle_calc_Streamlit.py    *)
(* repeat their last lines after the "if __name__" block (GUI from line     *)
(* 388, dashboard from line 237), which Python rejects as they stand.  The  *)
(* model is of each program up to that repeated tail.                       *)
(***************************************************************************)
EXTENDS Integers, Sequences, FiniteSets, TLC

VARIABLES
    frontend,   \* which of the three programs is running
    pc,         \* console: the prompt the script waits at; GUI, dashboard: "idle"
    sel,        \* console: the script's variables set so far
    cp_ref,     \* CoolProp's reference state per fluid (global, survives runs)
    pane,       \* what the front end displays: state table and metrics, or none
    msg,        \* the last message shown to the user
    runs,       \* number of Calculate actions (GUI, dashboard) so far
    log,        \* CoolProp calls of the latest prompt or Calculate, in order
    typed,      \* what the user typed at the latest prompt or Calculate
    exc,        \* the exception raised in the latest prompt or Calculate, "" if none
    conv        \* unit-conversion round trip under test

vars == <<frontend, pc, sel, cp_ref, pane, msg, runs, log, typed, exc, conv>>

\* grid steps per unit for temperatures and dimensionless ratios
Scale == 10000

Abs(x) == IF x < 0 THEN -x ELSE x

Max2(a, b) == IF a >= b THEN a ELSE b

\* a / b rounded to the nearest integer, ties to even (b > 0)
RoundDiv(a, b) ==
    LET q == a \div b
        r == a % b
    IN  IF 2 * r < b THEN q
        ELSE IF 2 * r > b THEN q + 1
        ELSE IF q % 2 = 0 THEN q ELSE q + 1

\* a / b for signed b (b /= 0)
FDiv(a, b) == IF b > 0 THEN RoundDiv(a, b) ELSE RoundDiv(-a, -b)

---------------------------------------------------------------------------
(* Unit conversion: pint factors between the grids.                        *)

Files == {"simple", "GUI", "Streamlit"}

Kinds == {"T", "P", "H", "S", "D", "M", "Heat"}

\* 459.67 degF on the temperature grid
FOffset == RoundDiv(45967 * Scale, 100)

\* degF -> K : (F + 459.67) * 5/9
DegFToK(v) == RoundDiv((v + FOffset) * 5, 9)

\* K -> degF : K * 9/5 - 459.67
KToDegF(v) == RoundDiv(v * 9, 5) - FOffset

\* psi -> Pa : 6894.757 Pa/psi, 0.01 psi -> 100 Pa steps
PsiToPa(v) == RoundDiv(v * 6895, 10000)

PaToPsi(v) == RoundDiv(v * 10000, 6895)

\* Btu/lbm -> J/kg : 2326 J/kg per Btu/lbm
BtuLbToJKg(v) == RoundDiv(v * 2326, 10000)

JKgToBtuLb(v) == RoundDiv(v * 10000, 2326)

\* Btu/(lbm degF) -> J/(kg K) : 4186.8
BtuLbFToJKgK(v) == RoundDiv(v * 41868, 100000)

JKgKToBtuLbF(v) == RoundDiv(v * 100000, 41868)

\* lbm/min -> kg/s : 0.45359237 / 60
LbMinToKgS(v) == RoundDiv(v * 75599, 10000)

KgSToLbMin(v) == RoundDiv(v * 10000, 75599)

\* kg/m^3 -> lbm/ft^3 : 1 / 16.01846
KgM3ToLbFt3(v) == RoundDiv(v * 10000, 16018)

\* W -> Btu/hr : 3.412142
WattToBtuHr(v) == RoundDiv(v * 3412, 1000)

\* the console script's table of IP -> SI conversions
convert_to_si_simple(property_name, value) ==
    CASE property_name = "T" -> DegFToK(value)
      [] property_name = "P" -> PsiToPa(value)
      [] property_name = "H" -> BtuLbToJKg(value)
      [] property_name = "S" -> BtuLbFToJKgK(value)
      [] property_name = "M" -> LbMinToKgS(value)
      [] property_name = "D" -> KgM3ToLbFt3(value)
      [] OTHER -> value

convert_to_si_GUI_without_P(property_name, value) ==
    CASE property_name = "T" -> DegFToK(value)
      [] property_name = "H" -> BtuLbToJKg(value)
      [] property_name = "S" -> BtuLbFToJKgK(value)
      [] property_name = "M" -> LbMinToKgS(value)
      [] OTHER -> value

\* the GUI's and the dashboard's table of IP -> SI conversions
convert_to_si_GUI(property_name, value) ==
    CASE property_name = "T" -> DegFToK(value)
      [] property_name = "P" -> PsiToPa(value)
      [] property_name = "H" -> BtuLbToJKg(value)
      [] property_name = "S" -> BtuLbFToJKgK(value)
      [] property_name = "M" -> LbMinToKgS(value)
      [] OTHER -> value

\* the dashboard's table of IP -> SI conversions
convert_to_si_Streamlit(property_name, value) ==
    CASE property_name = "T" -> DegFToK(value)
      [] property_name = "P" -> PsiToPa(value)
      [] property_name = "H" -> BtuLbToJKg(value)
      [] property_name = "S" -> BtuLbFToJKgK(value)
      [] property_name = "M" -> LbMinToKgS(value)
      [] OTHER -> value

convert_to_si(file, property_name, value) ==
    CASE file = "simple" -> convert_to_si_simple(property_name, value)
      [] file = "GUI" -> convert_to_si_GUI(property_name, value)
      [] file = "Streamlit" -> convert_to_si_Streamlit(property_name, value)

convert_from_si_simple(property_name, value) ==
    CASE property_name = "T" -> KToDegF(value)
      [] property_name = "P" -> PaToPsi(value)
      [] property_name = "H" -> JKgToBtuLb(value)
      [] property_name = "S" -> JKgKToBtuLbF(value)
      [] property_name = "M" -> KgSToLbMin(value)
      [] property_name = "D" -> KgM3ToLbFt3(value)
      [] property_name = "Heat" -> WattToBtuHr(value)
      [] OTHER -> value

convert_from_si_GUI(property_name, value) ==
    CASE property_name = "T" -> KToDegF(value)
      [] property_name = "P" -> PaToPsi(value)
      [] property_name = "H" -> JKgToBtuLb(value)
      [] property_name = "S" -> JKgKToBtuLbF(value)
      [] property_name = "D" -> KgM3ToLbFt3(value)
      [] property_name = "Heat" -> WattToBtuHr(value)
      [] OTHER -> value

convert_from_si_Streamlit(property_name, value) ==
    CASE property_name = "T" -> KToDegF(value)
      [] property_name = "P" -> PaToPsi(value)
      [] property_name = "H" -> JKgToBtuLb(value)
      [] property_name = "S" -> JKgKToBtuLbF(value)
      [] property_name = "D" -> KgM3ToLbFt3(value)
      [] property_name = "Heat" -> WattToBtuHr(value)
      [] OTHER -> value

convert_from_si(file, property_name, value) ==
    CASE file = "simple" -> convert_from_si_simple(property_name, value)
      [] file = "GUI" -> convert_from_si_GUI(property_name, value)
      [] file = "Streamlit" -> convert_from_si_Streamlit(property_name, value)

---------------------------------------------------------------------------
(* CoolProp.  The property library is outside the repository; it is         *)
(* modelled as a synthetic equation of state per fluid that keeps what the  *)
(* programs rely on: saturation temperature and pressure increase together, *)
(* vapour enthalpy at fixed entropy increases with pressure, H(P,T) agrees   *)
(* with H(P,S(P,T)), enthalpy and entropy move with the reference state,    *)
(* and a query outside the fluid's range, or a (P,T) query on the           *)
(* saturation line, raises ValueError.                                      *)

refrigerant_list == <<"R22", "R134a", "R32", "R410A", "R507A">>

ref_state_list == <<"ASHRAE", "NBP", "IIR">>

Refrigerants == {refrigerant_list[i] : i \in DOMAIN refrigerant_list}

RefStates == {ref_state_list[i] : i \in DOMAIN ref_state_list}

FluidIdx(fluid) == CHOOSE i \in DOMAIN refrigerant_list : refrigerant_list[i] = fluid

\* the library's own reference state of a fluid before any set_reference_state
DefaultRef == "DEF"

RefIdx(r) == IF r = DefaultRef THEN 0
             ELSE CHOOSE i \in DOMAIN ref_state_list : ref_state_list[i] = r

\* saturation temperature at zero pressure of the linear saturation line
TBase(fluid) == (270 - 5 * FluidIdx(fluid)) * Scale

\* temperature glide of the blends
Glide(fluid) == IF fluid \in {"R410A", "R507A"} THEN RoundDiv(Scale, 10) ELSE 0

PMinLib == 500

PMaxLib == 40000

TMinLib(fluid) == TBase(fluid) - 5 * Scale

TMaxLib == 450 * Scale

HOff(fluid, r) == 150 * RefIdx(r) + 7 * FluidIdx(fluid) * RefIdx(r)

SOff(fluid, r) == 40 * RefIdx(r) + 3 * FluidIdx(fluid) * RefIdx(r)

Ok(v) == [ok |-> TRUE, v |-> v]

\* the call raised ValueError
Raise == [ok |-> FALSE, v |-> 0]

PInRange(p) == PMinLib <= p /\ p <= PMaxLib

TInRange(fluid, t) == TMinLib(fluid) <= t /\ t <= TMaxLib

\* saturated vapour temperature at pressure p
TsatV(fluid, p) == TBase(fluid) + RoundDiv(p * Scale, 286)

\* saturated liquid temperature at pressure p
TsatL(fluid, p) == TsatV(fluid, p) - Glide(fluid)

\* saturated vapour pressure at temperature t
PsatV(fluid, t) == ((t - TBase(fluid)) * 286) \div Scale

\* vapour entropy and enthalpy, reference state apart
SVap(p, t) == 1000 + RoundDiv(t * 2, Scale) - RoundDiv(p, 100)

HofPS(p, s) == 2 * s + RoundDiv(p, 20)

HVap(p, t) == HofPS(p, SVap(p, t))

DVap(p, t) == RoundDiv(p * 136, Max2(1, t \div Scale))

\* liquid
HLiq(t) == RoundDiv(t * 13, Scale) - 1500

SLiq(t) == RoundDiv(t * 4, Scale)

DLiq(t) == 220000 - RoundDiv(t * 350, Scale)

\* saturation enthalpies at pressure p
Hf(fluid, p) == HLiq(TsatL(fluid, p))

Hg(fluid, p) == HVap(p, TsatV(fluid, p))

\* vapour quality on the ratio grid (outside 0..Scale off the two-phase dome)
QofPH(fluid, p, h) == RoundDiv((h - Hf(fluid, p)) * Scale, Hg(fluid, p) - Hf(fluid, p))

\* inverse of HofPS and of SVap, for (P,H) queries of superheated vapour
SofPH(p, h) == RoundDiv(h - RoundDiv(p, 20), 2)

TofPS(p, s) == RoundDiv((s - 1000 + RoundDiv(p, 100)) * Scale, 2)

\* temperature at (p, h), raw enthalpy h
TofPH(fluid, p, h) ==
    IF h >= Hg(fluid, p) THEN TofPS(p, SofPH(p, h))
    ELSE IF h <= Hf(fluid, p) THEN RoundDiv((h + 1500) * Scale, 13)
    ELSE TsatV(fluid, p)

SofPHAll(fluid, p, h) ==
    IF h >= Hg(fluid, p) THEN SofPH(p, h)
    ELSE IF h <= Hf(fluid, p) THEN SLiq(TofPH(fluid, p, h))
    ELSE SLiq(TsatL(fluid, p))
         + RoundDiv(QofPH(fluid, p, h)
                    * (SVap(p, TsatV(fluid, p)) - SLiq(TsatL(fluid, p))), Scale)

DofPH(fluid, p, h) ==
    IF h >= Hg(fluid, p) THEN DVap(p, TofPH(fluid, p, h))
    ELSE IF h <= Hf(fluid, p) THEN DLiq(TofPH(fluid, p, h))
    ELSE DLiq(TsatL(fluid, p))
         - RoundDiv(QofPH(fluid, p, h)
                    * (DLiq(TsatL(fluid, p)) - DVap(p, TsatV(fluid, p))), Scale)

\* CP.PropsSI(out, n1, v1, n2, v2, fluid) with reference state ref in force
PropsSI(ref, out, n1, v1, n2, v2, fluid) ==
    IF fluid \notin Refrigerants THEN Raise
    ELSE IF n1 = "T" /\ n2 = "Q" THEN
        \* ('P', 'T', t, 'Q', 1)
        IF out = "P" /\ TInRange(fluid, v1) /\ PInRange(PsatV(fluid, v1))
        THEN Ok(PsatV(fluid, v1)) ELSE Raise
    ELSE IF ~PInRange(v1) THEN Raise
    ELSE IF n2 = "Q" THEN
        \* ('T', 'P', p, 'Q', 0 or 1)
        IF out = "T" THEN Ok(IF v2 = 1 THEN TsatV(fluid, v1) ELSE TsatL(fluid, v1))
        ELSE Raise
    ELSE IF n2 = "T" THEN
        IF ~TInRange(fluid, v2) THEN Raise
        ELSE IF TsatL(fluid, v1) <= v2 /\ v2 <= TsatV(fluid, v1) THEN Raise
        ELSE IF v2 > TsatV(fluid, v1) THEN
            CASE out = "D" -> Ok(DVap(v1, v2))
              [] out = "H" -> Ok(HVap(v1, v2) + HOff(fluid, ref))
              [] out = "S" -> Ok(SVap(v1, v2) + SOff(fluid, ref))
              [] OTHER -> Raise
        ELSE
            CASE out = "D" -> Ok(DLiq(v2))
              [] out = "H" -> Ok(HLiq(v2) + HOff(fluid, ref))
              [] out = "S" -> Ok(SLiq(v2) + SOff(fluid, ref))
              [] OTHER -> Raise
    ELSE IF n2 = "S" THEN
        \* ('H', 'P', p, 'S', s): the isentropic enthalpy
        IF out = "H" /\ TInRange(fluid, TofPS(v1, v2 - SOff(fluid, ref)))
        THEN Ok(HofPS(v1, v2 - SOff(fluid, ref)) + HOff(fluid, ref)) ELSE Raise
    ELSE IF n2 = "H" THEN
        LET h == v2 - HOff(fluid, ref)
        IN  IF ~TInRange(fluid, TofPH(fluid, v1, h)) THEN Raise
            ELSE CASE out = "T" -> Ok(TofPH(fluid, v1, h))
                   [] out = "D" -> Ok(DofPH(fluid, v1, h))
                   [] out = "S" -> Ok(SofPHAll(fluid, v1, h) + SOff(fluid, ref))
                   [] out = "Q" -> Ok(QofPH(fluid, v1, h))
                   [] OTHER -> Raise
    ELSE Raise

\* CP.set_reference_state(fluid, ref_state): raises for an unknown name
SetRefOk(fluid, ref_state) == fluid \in Refrigerants /\ ref_state \in RefStates

set_reference_state_ignored(library, fluid, ref_state) == library

set_reference_state_as_first(library, fluid, ref_state) ==
    [library EXCEPT ![fluid] = ref_state_list[1]]

\* the library's per-fluid reference states after CP.set_reference_state(fluid,
\* ref_state) returned: the fluid's is replaced, the others are kept
set_reference_state(library, fluid, ref_state) == [library EXCEPT ![fluid] = ref_state]

---------------------------------------------------------------------------
(* The cycle evaluation: state points 1-4 and the performance metrics.      *)
(* Each program is the list of its assignments, in source order, run over   *)
(* the record env of its local variables.  env.exc is "none" until a        *)
(* statement raises; the remaining statements are then skipped.  env.calls  *)
(* holds the library calls issued, in order.                                *)

Call(out, n1, v1, n2, v2, fluid) ==
    [out |-> out, n1 |-> n1, v1 |-> v1, n2 |-> n2, v2 |-> v2, fluid |-> fluid]

\* one CP.PropsSI call under the fluid's reference state ref
Ask(ref, c) == PropsSI(ref, c.out, c.n1, c.v1, c.n2, c.v2, c.fluid)

\* Python's a / b on the ratio grid: ZeroDivisionError when b = 0
Divide(a, b) == IF b = 0 THEN Raise ELSE Ok(FDiv(a * Scale, b))

\* mass_flow * (ha - hb) in W: 0.00001 kg/s steps times 100 J/kg steps
Power(mass_flow, ha, hb) == RoundDiv(mass_flow * (ha - hb), 1000)

\* compressor_work = mass_flow * (h2 - h1)
CompressorWork(mass_flow, h2, h1) == Power(mass_flow, h2, h1)

\* heat_removed = mass_flow * (h1 - h4)
HeatRemoved(mass_flow, h1, h4) == Power(mass_flow, h1, h4)

HeatRejected_swapped(mass_flow, h2, h3) == Power(mass_flow, h3, h2)

\* heat_rejected = mass_flow * (h2 - h3)
HeatRejected(mass_flow, h2, h3) == Power(mass_flow, h2, h3)

ActualEnthalpy_subtracted(h1, h2s, eff) ==
    IF eff = 0 THEN Raise ELSE Ok(h1 - FDiv((h2s - h1) * Scale, eff))

\* h1 + ((h2s - h1) / isentropic_eff), the efficiency a fraction on the ratio grid
ActualEnthalpy(h1, h2s, eff) ==
    IF eff = 0 THEN Raise ELSE Ok(h1 + FDiv((h2s - h1) * Scale, eff))

COP_unguarded(heat_removed, compressor_work) == Divide(heat_removed, compressor_work)

\* COP = heat_removed / compressor_work if compressor_work != 0 else 0.0
COP(heat_removed, compressor_work) ==
    IF compressor_work /= 0 THEN Divide(heat_removed, compressor_work) ELSE Ok(0)

\* tons = heat_removed [Btu/hr] / 12000, on the ratio grid
Tons(rem_btu_hr) == RoundDiv(rem_btu_hr * Scale, 12000)

\* compressor_work / 1000, on the ratio grid
KW(compressor_work) == RoundDiv(compressor_work * Scale, 1000)

KwPerTon_never_inf(comp_kW, tons) ==
    [inf |-> FALSE, v |-> IF tons = 0 THEN 0 ELSE FDiv(comp_kW * Scale, tons)]

\* kw_per_ton = comp_kW / tons if tons > 0 else float('inf')
KwPerTon(comp_kW, tons) ==
    IF tons > 0 THEN [inf |-> FALSE, v |-> FDiv(comp_kW * Scale, tons)]
    ELSE [inf |-> TRUE, v |-> 0]

State(T, P, D, H, S) == [T |-> T, P |-> P, D |-> D, H |-> H, S |-> S]

\* the ValueError CoolProp raises
LibraryError == "CoolProp ValueError"

\* name = CP.PropsSI(...): the call c is issued; it returns (r.ok) or raises
Query(env, name, c) ==
    CHOOSE after \in
        {IF r.ok THEN (name :> r.v) @@ [env EXCEPT !.calls = Append(@, c)]
         ELSE [env EXCEPT !.calls = Append(@, c), !.exc = LibraryError] :
            r \in {Ask(env.ref, c)}} : TRUE

\* name = value
Assign(env, name, value) == (name :> value) @@ env

\* name = an expression with a division: r is its value, or the raise
Quotient(env, name, r) ==
    IF r.ok THEN (name :> r.v) @@ env ELSE [env EXCEPT !.exc = "ZeroDivisionError"]

\* refrig_cycle_calc_simple.py, from "STATE POINTS" to the metrics
ProgramSimple ==
    <<"state_1_pressure", "state_1_temp", "state_1_density", "state_1_enthalpy",
      "state_1_entropy", "state_2_pressure", "state_2_enthalpy_ideal",
      "state_2_enthalpy_actual", "state_2_temp", "state_2_density", "state_2_entropy",
      "state_3_pressure", "sat_liq_temp_cond", "state_3_temp", "state_3_density",
      "state_3_enthalpy", "state_3_entropy", "state_4_pressure", "state_4_enthalpy",
      "state_4_temp", "state_4_density", "state_4_entropy", "state_4_quality",
      "compressor_work", "heat_removed", "heat_rejected", "COP",
      "compressor_work_btu_hr", "compressor_work_kw", "heat_removed_btu_hr",
      "heat_rejected_btu_hr", "tons_of_refrigeration", "kw_per_ton">>

\* the assignment to name in refrig_cycle_calc_simple.py
StmtSimple(name, env) ==
    CASE name = "state_1_pressure" -> Assign(env, name, env.low_pressure)
      [] name = "state_1_temp" ->
            Assign(env, name, env.saturation_temp_evap + env.superheat)
      [] name = "state_1_density" ->
            Query(env, name, Call("D", "P", env.state_1_pressure, "T", env.state_1_temp,
                                  env.selected_refrigerant))
      [] name = "state_1_enthalpy" ->
            Query(env, name, Call("H", "P", env.state_1_pressure, "T", env.state_1_temp,
                                  env.selected_refrigerant))
      [] name = "state_1_entropy" ->
            Query(env, name, Call("S", "P", env.state_1_pressure, "T", env.state_1_temp,
                                  env.selected_refrigerant))
      [] name = "state_2_pressure" -> Assign(env, name, env.high_pressure)
      [] name = "state_2_enthalpy_ideal" ->
            Query(env, name, Call("H", "P", env.state_2_pressure, "S", env.state_1_entropy,
                                  env.selected_refrigerant))
      [] name = "state_2_enthalpy_actual" ->
            Quotient(env, name, ActualEnthalpy(env.state_1_enthalpy,
                                               env.state_2_enthalpy_ideal, env.isentrop_eff))
      [] name = "state_2_temp" ->
            Query(env, name, Call("T", "P", env.state_2_pressure, "H",
                                  env.state_2_enthalpy_actual, env.selected_refrigerant))
      [] name = "state_2_density" ->
            Query(env, name, Call("D", "P", env.state_2_pressure, "H",
                                  env.state_2_enthalpy_actual, env.selected_refrigerant))
      [] name = "state_2_entropy" ->
            Query(env, name, Call("S", "P", env.state_2_pressure, "H",
                                  env.state_2_enthalpy_actual, env.selected_refrigerant))
      [] name = "state_3_pressure" -> Assign(env, name, env.state_2_pressure)
      [] name = "sat_liq_temp_cond" ->
            Query(env, name, Call("T", "P", env.state_3_pressure, "Q", 0,
                                  env.selected_refrigerant))
      [] name = "state_3_temp" ->
            Assign(env, name, env.sat_liq_temp_cond - env.subcooling)
      [] name = "state_3_density" ->
            Query(env, name, Call("D", "P", env.state_3_pressure, "T", env.state_3_temp,
                                  env.selected_refrigerant))
      [] name = "state_3_enthalpy" ->
            Query(env, name, Call("H", "P", env.state_3_pressure, "T", env.state_3_temp,
                                  env.selected_refrigerant))
      [] name = "state_3_entropy" ->
            Query(env, name, Call("S", "P", env.state_3_pressure, "T", env.state_3_temp,
                                  env.selected_refrigerant))
      [] name = "state_4_pressure" -> Assign(env, name, env.low_pressure)
      [] name = "state_4_enthalpy" -> Assign(env, name, env.state_3_enthalpy)
      [] name = "state_4_temp" ->
            Query(env, name, Call("T", "P", env.state_4_pressure, "H", env.state_4_enthalpy,
                                  env.selected_refrigerant))
      [] name = "state_4_density" ->
            Query(env, name, Call("D", "P", env.state_4_pressure, "H", env.state_4_enthalpy,
                                  env.selected_refrigerant))
      [] name = "state_4_entropy" ->
            Query(env, name, Call("S", "P", env.state_4_pressure, "H", env.state_4_enthalpy,
                                  env.selected_refrigerant))
      [] name = "state_4_quality" ->
            Query(env, name, Call("Q", "P", env.state_4_pressure, "H", env.state_4_enthalpy,
                                  env.selected_refrigerant))
      [] name = "compressor_work" ->
            Assign(env, name, CompressorWork(env.mass_flow, env.state_2_enthalpy_actual,
                                             env.state_1_enthalpy))
      [] name = "heat_removed" ->
            Assign(env, name, HeatRemoved(env.mass_flow, env.state_1_enthalpy,
                                          env.state_4_enthalpy))
      [] name = "heat_rejected" ->
            Assign(env, name, HeatRejected(env.mass_flow, env.state_2_enthalpy_actual,
                                           env.state_3_enthalpy))
      [] name = "COP" -> Quotient(env, name, COP(env.heat_removed, env.compressor_work))
      [] name = "compressor_work_btu_hr" ->
            Assign(env, name, convert_from_si("simple", "Heat", env.compressor_work))
      [] name = "compressor_work_kw" -> Assign(env, name, KW(env.compressor_work))
      [] name = "heat_removed_btu_hr" ->
            Assign(env, name, convert_from_si("simple", "Heat", env.heat_removed))
      [] name = "heat_rejected_btu_hr" ->
            Assign(env, name, convert_from_si("simple", "Heat", env.heat_rejected))
      [] name = "tons_of_refrigeration" -> Assign(env, name, Tons(env.heat_removed_btu_hr))
      [] name = "kw_per_ton" ->
            Assign(env, name, KwPerTon(env.compressor_work_kw, env.tons_of_refrigeration))

\* "Pressure" in evap_type
IsPressure(type) == type = "Pressure (psia)"

\* the float literals 0.0001 and 0.001 (K)
Eps4 == RoundDiv(Scale, 10000)

Eps3 == RoundDiv(Scale, 1000)

PercentToFraction_kept(eff) == eff

\* isentropic_eff / 100
PercentToFraction(eff) == RoundDiv(eff, 100)

\* refrig_cycle_calc_GUI.py, from the efficiency fraction to the metrics
ProgramGUI ==
    <<"isentropic_eff", "evap_given", "evap_saturation", "cond_given", "cond_saturation",
      "superheat_K", "subcooling_K", "mass_flow", "T1", "H1", "S1", "D1", "h2s_ideal",
      "H2", "T2", "S2", "D2", "Tcond_sat", "T3", "H3", "S3", "D3", "H4", "T4", "S4", "D4",
      "compressor_work", "heat_removed", "heat_rejected", "COP", "comp_btu_hr",
      "rem_btu_hr", "rej_btu_hr", "tons_ref", "comp_kW", "kw_per_ton">>

\* the assignment to name in refrig_cycle_calc_GUI.py; the two branches of the
\* evaporator side and of the condenser side assign first what is given, then
\* what the library returns
StmtGUI(name, env) ==
    CASE name = "isentropic_eff" ->
            Assign(env, name, PercentToFraction(env.isentropic_eff))
      [] name = "evap_given" ->
            IF IsPressure(env.evap_type)
            THEN Assign(env, "low_pressure", convert_to_si("GUI", "P", env.evap_value))
            ELSE Assign(env, "sat_evap_T", convert_to_si("GUI", "T", env.evap_value))
      [] name = "evap_saturation" ->
            IF IsPressure(env.evap_type)
            THEN Query(env, "sat_evap_T",
                       Call("T", "P", env.low_pressure, "Q", 1, env.refrigerant))
            ELSE Query(env, "low_pressure",
                       Call("P", "T", env.sat_evap_T, "Q", 1, env.refrigerant))
      [] name = "cond_given" ->
            IF IsPressure(env.cond_type)
            THEN Assign(env, "high_pressure", convert_to_si("GUI", "P", env.cond_value))
            ELSE Assign(env, "sat_cond_T", convert_to_si("GUI", "T", env.cond_value))
      [] name = "cond_saturation" ->
            IF IsPressure(env.cond_type)
            THEN Query(env, "sat_cond_T",
                       Call("T", "P", env.high_pressure, "Q", 1, env.refrigerant))
            ELSE Query(env, "high_pressure",
                       Call("P", "T", env.sat_cond_T, "Q", 1, env.refrigerant))
      [] name = "superheat_K" ->
            Assign(env, name, Max2(Eps4, RoundDiv(env.superheat_F * 5, 9)))
      [] name = "subcooling_K" ->
            Assign(env, name, Max2(Eps4, RoundDiv(env.subcooling_F * 5, 9)))
      [] name = "mass_flow" ->
            Assign(env, name, convert_to_si("GUI", "M", env.mass_flow_lb_min))
      [] name = "T1" -> Assign(env, name, env.sat_evap_T + env.superheat_K)
      [] name = "H1" ->
            Query(env, name, Call("H", "P", env.low_pressure, "T", env.T1, env.refrigerant))
      [] name = "S1" ->
            Query(env, name, Call("S", "P", env.low_pressure, "T", env.T1, env.refrigerant))
      [] name = "D1" ->
            Query(env, name, Call("D", "P", env.low_pressure, "T", env.T1, env.refrigerant))
      [] name = "h2s_ideal" ->
            Query(env, name, Call("H", "P", env.high_pressure, "S", env.S1, env.refrigerant))
      [] name = "H2" ->
            Quotient(env, name, ActualEnthalpy(env.H1, env.h2s_ideal, env.isentropic_eff))
      [] name = "T2" ->
            Query(env, name, Call("T", "P", env.high_pressure, "H", env.H2, env.refrigerant))
      [] name = "S2" ->
            Query(env, name, Call("S", "P", env.high_pressure, "H", env.H2, env.refrigerant))
      [] name = "D2" ->
            Query(env, name, Call("D", "P", env.high_pressure, "H", env.H2, env.refrigerant))
      [] name = "Tcond_sat" ->
            Query(env, name, Call("T", "P", env.high_pressure, "Q", 0, env.refrigerant))
      [] name = "T3" -> Assign(env, name, env.Tcond_sat - env.subcooling_K)
      [] name = "H3" ->
            Query(env, name, Call("H", "P", env.high_pressure, "T", env.T3, env.refrigerant))
      [] name = "S3" ->
            Query(env, name, Call("S", "P", env.high_pressure, "T", env.T3, env.refrigerant))
      [] name = "D3" ->
            Query(env, name, Call("D", "P", env.high_pressure, "T", env.T3, env.refrigerant))
      [] name = "H4" -> Assign(env, name, env.H3)
      [] name = "T4" ->
            Query(env, name, Call("T", "P", env.low_pressure, "H", env.H4, env.refrigerant))
      [] name = "S4" ->
            Query(env, name, Call("S", "P", env.low_pressure, "H", env.H4, env.refrigerant))
      [] name = "D4" ->
            Query(env, name, Call("D", "P", env.low_pressure, "H", env.H4, env.refrigerant))
      [] name = "compressor_work" ->
            Assign(env, name, CompressorWork(env.mass_flow, env.H2, env.H1))
      [] name = "heat_removed" ->
            Assign(env, name, HeatRemoved(env.mass_flow, env.H1, env.H4))
      [] name = "heat_rejected" ->
            Assign(env, name, HeatRejected(env.mass_flow, env.H2, env.H3))
      [] name = "COP" -> Quotient(env, name, COP(env.heat_removed, env.compressor_work))
      [] name = "comp_btu_hr" ->
            Assign(env, name, convert_from_si("GUI", "Heat", env.compressor_work))
      [] name = "rem_btu_hr" ->
            Assign(env, name, convert_from_si("GUI", "Heat", env.heat_removed))
      [] name = "rej_btu_hr" ->
            Assign(env, name, convert_from_si("GUI", "Heat", env.heat_rejected))
      [] name = "tons_ref" -> Assign(env, name, Tons(env.rem_btu_hr))
      [] name = "comp_kW" -> Assign(env, name, KW(env.compressor_work))
      [] name = "kw_per_ton" -> Assign(env, name, KwPerTon(env.comp_kW, env.tons_ref))

\* refrig_cycle_calc_Streamlit.py, from the efficiency fraction to the metrics
ProgramStreamlit ==
    <<"isentropic_eff_frac", "evap_given", "evap_saturation", "cond_given", "cond_saturation",
      "superheat_K", "subcooling_K", "mass_flow", "T1", "H1", "S1", "D1", "h2s_ideal",
      "H2", "T2", "S2", "D2", "Tcond_sat", "T3", "H3", "S3", "D3", "H4", "T4", "S4", "D4",
      "compressor_work", "heat_removed", "heat_rejected", "COP", "comp_btu_hr",
      "rem_btu_hr", "rej_btu_hr", "tons_ref", "comp_kW", "kw_per_ton">>

\* the assignment to name in refrig_cycle_calc_Streamlit.py; the two branches of the
\* evaporator side and of the condenser side assign first what is given, then
\* what the library returns
StmtStreamlit(name, env) ==
    CASE name = "isentropic_eff_frac" ->
            Assign(env, name, PercentToFraction(env.isentropic_eff))
      [] name = "evap_given" ->
            IF IsPressure(env.evap_type)
            THEN Assign(env, "low_pressure", convert_to_si("Streamlit", "P", env.evap_value))
            ELSE Assign(env, "sat_evap_T", convert_to_si("Streamlit", "T", env.evap_value))
      [] name = "evap_saturation" ->
            IF IsPressure(env.evap_type)
            THEN Query(env, "sat_evap_T",
                       Call("T", "P", env.low_pressure, "Q", 1, env.refrigerant))
            ELSE Query(env, "low_pressure",
                       Call("P", "T", env.sat_evap_T, "Q", 1, env.refrigerant))
      [] name = "cond_given" ->
            IF IsPressure(env.cond_type)
            THEN Assign(env, "high_pressure", convert_to_si("Streamlit", "P", env.cond_value))
            ELSE Assign(env, "sat_cond_T", convert_to_si("Streamlit", "T", env.cond_value))
      [] name = "cond_saturation" ->
            IF IsPressure(env.cond_type)
            THEN Query(env, "sat_cond_T",
                       Call("T", "P", env.high_pressure, "Q", 1, env.refrigerant))
            ELSE Query(env, "high_pressure",
                       Call("P", "T", env.sat_cond_T, "Q", 1, env.refrigerant))
      [] name = "superheat_K" ->
            Assign(env, name, Max2(Eps4, RoundDiv(env.superheat_F * 5, 9)))
      [] name = "subcooling_K" ->
            Assign(env, name, Max2(Eps4, RoundDiv(env.subcooling_F * 5, 9)))
      [] name = "mass_flow" ->
            Assign(env, name, convert_to_si("Streamlit", "M", env.mass_flow_lb_min))
      [] name = "T1" -> Assign(env, name, env.sat_evap_T + env.superheat_K)
      [] name = "H1" ->
            Query(env, name, Call("H", "P", env.low_pressure, "T", env.T1, env.refrigerant))
      [] name = "S1" ->
            Query(env, name, Call("S", "P", env.low_pressure, "T", env.T1, env.refrigerant))
      [] name = "D1" ->
            Query(env, name, Call("D", "P", env.low_pressure, "T", env.T1, env.refrigerant))
      [] name = "h2s_ideal" ->
            Query(env, name, Call("H", "P", env.high_pressure, "S", env.S1, env.refrigerant))
      [] name = "H2" ->
            Quotient(env, name, ActualEnthalpy(env.H1, env.h2s_ideal, env.isentropic_eff_frac))
      [] name = "T2" ->
            Query(env, name, Call("T", "P", env.high_pressure, "H", env.H2, env.refrigerant))
      [] name = "S2" ->
            Query(env, name, Call("S", "P", env.high_pressure, "H", env.H2, env.refrigerant))
      [] name = "D2" ->
            Query(env, name, Call("D", "P", env.high_pressure, "H", env.H2, env.refrigerant))
      [] name = "Tcond_sat" ->
            Query(env, name, Call("T", "P", env.high_pressure, "Q", 0, env.refrigerant))
      [] name = "T3" -> Assign(env, name, env.Tcond_sat - env.subcooling_K)
      [] name = "H3" ->
            Query(env, name, Call("H", "P", env.high_pressure, "T", env.T3, env.refrigerant))
      [] name = "S3" ->
            Query(env, name, Call("S", "P", env.high_pressure, "T", env.T3, env.refrigerant))
      [] name = "D3" ->
            Query(env, name, Call("D", "P", env.high_pressure, "T", env.T3, env.refrigerant))
      [] name = "H4" -> Assign(env, name, env.H3)
      [] name = "T4" ->
            Query(env, name, Call("T", "P", env.low_pressure, "H", env.H4, env.refrigerant))
      [] name = "S4" ->
            Query(env, name, Call("S", "P", env.low_pressure, "H", env.H4, env.refrigerant))
      [] name = "D4" ->
            Query(env, name, Call("D", "P", env.low_pressure, "H", env.H4, env.refrigerant))
      [] name = "compressor_work" ->
            Assign(env, name, CompressorWork(env.mass_flow, env.H2, env.H1))
      [] name = "heat_removed" ->
            Assign(env, name, HeatRemoved(env.mass_flow, env.H1, env.H4))
      [] name = "heat_rejected" ->
            Assign(env, name, HeatRejected(env.mass_flow, env.H2, env.H3))
      [] name = "COP" -> Quotient(env, name, COP(env.heat_removed, env.compressor_work))
      [] name = "comp_btu_hr" ->
            Assign(env, name, convert_from_si("Streamlit", "Heat", env.compressor_work))
      [] name = "rem_btu_hr" ->
            Assign(env, name, convert_from_si("Streamlit", "Heat", env.heat_removed))
      [] name = "rej_btu_hr" ->
            Assign(env, name, convert_from_si("Streamlit", "Heat", env.heat_rejected))
      [] name = "tons_ref" -> Assign(env, name, Tons(env.rem_btu_hr))
      [] name = "comp_kW" -> Assign(env, name, KW(env.compressor_work))
      [] name = "kw_per_ton" -> Assign(env, name, KwPerTon(env.comp_kW, env.tons_ref))

Program(file) ==
    CASE file = "simple" -> ProgramSimple
      [] file = "GUI" -> ProgramGUI
      [] file = "Streamlit" -> ProgramStreamlit

Stmt(file, name, env) ==
    CASE file = "simple" -> StmtSimple(name, env)
      [] file = "GUI" -> StmtGUI(name, env)
      [] file = "Streamlit" -> StmtStreamlit(name, env)

\* the statements of file from number i on, run over env: an exception ends the run
RECURSIVE Exec(_, _, _)
Exec(file, env, i) ==
    CHOOSE after \in
        {IF i > Len(Program(file)) \/ e.exc /= "none" THEN e
         ELSE Exec(file, Stmt(file, Program(file)[i], e), i + 1) : e \in {env}} : TRUE

\* the local variables before the first statement
Locals(ref, given) == [exc |-> "none", calls |-> <<>>, ref |-> ref] @@ given

\* what the console prints: the state table, the warning and the metrics
ResultSimple(env) ==
    [exc |-> env.exc, calls |-> env.calls,
     out |-> IF env.exc /= "none" THEN <<>>
             ELSE [states |-> <<State(env.state_1_temp, env.state_1_pressure,
                                      env.state_1_density, env.state_1_enthalpy,
                                      env.state_1_entropy),
                                State(env.state_2_temp, env.state_2_pressure,
                                      env.state_2_density, env.state_2_enthalpy_actual,
                                      env.state_2_entropy),
                                State(env.state_3_temp, env.state_3_pressure,
                                      env.state_3_density, env.state_3_enthalpy,
                                      env.state_3_entropy),
                                State(env.state_4_temp, env.state_4_pressure,
                                      env.state_4_density, env.state_4_enthalpy,
                                      env.state_4_entropy)>>,
                   h2s |-> env.state_2_enthalpy_ideal,
                   quality |-> <<env.state_4_quality>>,
                   warning |-> ~(0 <= env.state_4_quality /\ env.state_4_quality <= Scale),
                   compressor_work |-> env.compressor_work,
                   heat_removed |-> env.heat_removed,
                   heat_rejected |-> env.heat_rejected,
                   COP |-> env.COP,
                   comp_btu_hr |-> env.compressor_work_btu_hr,
                   rem_btu_hr |-> env.heat_removed_btu_hr,
                   rej_btu_hr |-> env.heat_rejected_btu_hr,
                   tons |-> env.tons_of_refrigeration,
                   comp_kW |-> env.compressor_work_kw,
                   kw_per_ton |-> env.kw_per_ton]]

\* what the GUI and the dashboard display: the state table and the metrics
ResultForm(env) ==
    [exc |-> env.exc, calls |-> env.calls,
     out |-> IF env.exc /= "none" THEN <<>>
             ELSE [states |-> <<State(env.T1, env.low_pressure, env.D1, env.H1, env.S1),
                                State(env.T2, env.high_pressure, env.D2, env.H2, env.S2),
                                State(env.T3, env.high_pressure, env.D3, env.H3, env.S3),
                                State(env.T4, env.low_pressure, env.D4, env.H4, env.S4)>>,
                   h2s |-> env.h2s_ideal,
                   quality |-> <<>>,
                   warning |-> FALSE,
                   compressor_work |-> env.compressor_work,
                   heat_removed |-> env.heat_removed,
                   heat_rejected |-> env.heat_rejected,
                   COP |-> env.COP,
                   comp_btu_hr |-> env.comp_btu_hr,
                   rem_btu_hr |-> env.rem_btu_hr,
                   rej_btu_hr |-> env.rej_btu_hr,
                   tons |-> env.tons_ref,
                   comp_kW |-> env.comp_kW,
                   kw_per_ton |-> env.kw_per_ton]]

\* refrig_cycle_calc_simple.py after the input loops, reference state ref in force
StatePointsSimple(ref, selected_refrigerant, low_pressure, saturation_temp_evap, high_pressure, superheat, subcooling, isentrop_eff, mass_flow) ==
    CHOOSE result \in
        {ResultSimple(e) : e \in
            {Exec("simple",
                  Locals(ref, [selected_refrigerant |-> selected_refrigerant,
                               low_pressure |-> low_pressure,
                               saturation_temp_evap |-> saturation_temp_evap,
                               high_pressure |-> high_pressure,
                               superheat |-> superheat, subcooling |-> subcooling,
                               isentrop_eff |-> isentrop_eff, mass_flow |-> mass_flow]),
                  1)}} : TRUE

\* the inputs calculate collected, as the local variables of the run; ref is the
\* reference state the library has in force for the refrigerant
FormLocals(ref, refrigerant, ref_state, evap_type, evap_value, cond_type, cond_value, superheat_F, subcooling_F, isentropic_eff, mass_flow_lb_min) ==
    Locals(ref, [refrigerant |-> refrigerant, ref_state |-> ref_state,
                 evap_type |-> evap_type,
                 evap_value |-> evap_value, cond_type |-> cond_type,
                 cond_value |-> cond_value, superheat_F |-> superheat_F,
                 subcooling_F |-> subcooling_F, isentropic_eff |-> isentropic_eff,
                 mass_flow_lb_min |-> mass_flow_lb_min])

\* refrig_cycle_calc_GUI.py: calculate after set_reference_state
CycleGUI(ref, refrigerant, ref_state, evap_type, evap_value, cond_type, cond_value, superheat_F, subcooling_F, isentropic_eff, mass_flow_lb_min) ==
    CHOOSE result \in
        {ResultForm(e) : e \in
            {Exec("GUI", FormLocals(ref, refrigerant, ref_state, evap_type, evap_value,
                                    cond_type, cond_value, superheat_F, subcooling_F,
                                    isentropic_eff, mass_flow_lb_min), 1)}} : TRUE

\* refrig_cycle_calc_Streamlit.py: the Calculate branch after set_reference_state
CycleStreamlit(ref, refrigerant, ref_state, evap_type, evap_value, cond_type, cond_value, superheat_F, subcooling_F, isentropic_eff, mass_flow_lb_min) ==
    CHOOSE result \in
        {ResultForm(e) : e \in
            {Exec("Streamlit", FormLocals(ref, refrigerant, ref_state, evap_type, evap_value,
                                          cond_type, cond_value, superheat_F, subcooling_F,
                                          isentropic_eff, mass_flow_lb_min), 1)}} : TRUE

---------------------------------------------------------------------------
(* What the user types.  An entry is text: a decimal number, held in        *)
(* hundredths, or text that float() and int() reject.                       *)

Num(v) == [num |-> TRUE, v |-> v]

NonNumeric == [num |-> FALSE, v |-> 0]

\* the typed number as degF, as percent (ratio grid), as psi, as lbm/min
AsDegF(v) == RoundDiv(v * Scale, 100)

AsPercent(v) == RoundDiv(v * Scale, 100)

AsPsi(v) == v

AsLbMin(v) == v

\* typed boundary values: 40, 110, 250 and 1000 (psia or degF)
BoundaryEntries == {NonNumeric, Num(4000), Num(11000), Num(25000), Num(100000)}

\* typed superheat and subcooling: -0.01, 0, 10, 30, 30.01
SuperheatEntries == {NonNumeric, Num(-1), Num(0), Num(1000), Num(3000), Num(3001)}

\* typed efficiency: 19.99, 20, 70, 100, 100.01
EfficiencyEntries == {NonNumeric, Num(1999), Num(2000), Num(7000), Num(10000), Num(10001)}

\* typed mass flow: -1, 0, 0.05, 5
MassFlowEntries == {NonNumeric, Num(-100), Num(0), Num(5), Num(500)}

\* typed list indices (whole numbers, not hundredths)
RefrigerantEntries == {NonNumeric, Num(-1), Num(0), Num(5)}

RefStateEntries == {NonNumeric, Num(0), Num(1), Num(2), Num(3)}

NoPane == [shown |-> FALSE, run |-> 0, res |-> <<>>, inputs |-> <<>>]

NoConv == [file |-> "", kind |-> "", v |-> 0, stage |-> "off", cur |-> 0]

NoTyped == [field |-> "", e |-> NonNumeric]

\* the console script's variables, and the accepted entries as typed
NoSel == [selected_refrigerant |-> "", ref_state |-> "",
          low_pressure |-> 0, saturation_temp_evap |-> 0,
          high_pressure |-> 0, saturation_temp_cond |-> 0,
          superheat |-> 0, subcooling |-> 0, isentrop_eff |-> 0,
          evap_choice |-> "", evap_typed |-> 0, cond_choice |-> "", cond_typed |-> 0,
          superheat_typed |-> 0, subcooling_typed |-> 0, eff_typed |-> 0]

\* messages the programs themselves show (print, messagebox, st.error);
\* "Traceback" is the interpreter's report of an uncaught exception
UserMessages == {"Invalid choice", "Invalid input", "Invalid numeric input",
                 "Error obtaining state", "ERROR temperature order",
                 "ERROR pressure order", "Invalid efficiency",
                 "Mass flow must be greater than 0", "Input Error",
                 "Calculation Error"}

Init ==
    /\ frontend \in {"console", "gui", "dashboard"}
    /\ pc = IF frontend = "console" THEN "refrigerant" ELSE "idle"
    /\ sel = NoSel
    /\ cp_ref = [f \in Refrigerants |-> DefaultRef]
    /\ pane = NoPane
    /\ msg = ""
    /\ runs = 0
    /\ log = <<>>
    /\ typed = NoTyped
    /\ exc = ""
    /\ conv = NoConv

---------------------------------------------------------------------------
(* The console script, one action per input() it blocks at.                 *)

SetRefCall(fluid, ref_state) == Call("set_reference_state", ref_state, 0, "", 0, fluid)

\* an exception nothing catches: the interpreter prints the traceback and the
\* script ends
Crash(exception) ==
    /\ pc' = "crashed"
    /\ msg' = "Traceback"
    /\ exc' = exception

\* a message the program prints for the exception it caught ("" for none)
Say(message, exception) ==
    /\ msg' = message
    /\ exc' = exception

\* choice = int(input(...)); selected_refrigerant = refrigerant_list[choice]
ConsoleRefrigerant(e) ==
    /\ frontend = "console" /\ pc = "refrigerant"
    /\ typed' = [field |-> "refrigerant", e |-> e]
    /\ IF e.num /\ -5 <= e.v /\ e.v <= 4
       THEN /\ sel' = [sel EXCEPT !.selected_refrigerant =
                          refrigerant_list[IF e.v >= 0 THEN e.v + 1 ELSE e.v + 6]]
            /\ pc' = "ref_state"
            /\ Say("", "")
       ELSE Crash(IF e.num THEN "IndexError" ELSE "ValueError") /\ UNCHANGED sel
    /\ UNCHANGED <<frontend, cp_ref, pane, runs, log, conv>>

\* the reference-state loop and CP.set_reference_state
ConsoleRefState(e) ==
    /\ frontend = "console" /\ pc = "ref_state"
    /\ typed' = [field |-> "ref_state", e |-> e]
    /\ IF ~e.num THEN Crash("ValueError") /\ UNCHANGED <<sel, cp_ref, log>>
       ELSE IF e.v \in {0, 1, 2}
       THEN /\ sel' = [sel EXCEPT !.ref_state = ref_state_list[e.v + 1]]
            /\ cp_ref' = set_reference_state(cp_ref, sel.selected_refrigerant,
                                              ref_state_list[e.v + 1])
            /\ log' = <<SetRefCall(sel.selected_refrigerant, ref_state_list[e.v + 1])>>
            /\ pc' = "evap"
            /\ Say("", "")
       ELSE /\ Say("Invalid choice", "")
            /\ UNCHANGED <<pc, sel, cp_ref, log>>
    /\ UNCHANGED <<frontend, pane, runs, conv>>

\* one pass of the evaporator input loop
ConsoleEvap(evap_choice, e) ==
    /\ frontend = "console" /\ pc = "evap"
    /\ typed' = [field |-> "evap", e |-> e]
    /\ IF evap_choice \notin {"1", "2"}
       THEN Say("Invalid choice", "") /\ UNCHANGED <<pc, sel, log>>
       ELSE IF ~e.num
       THEN Say("Invalid numeric input", "ValueError") /\ UNCHANGED <<pc, sel, log>>
       ELSE LET f == sel.selected_refrigerant
                c == IF evap_choice = "1"
                     THEN Call("T", "P", convert_to_si("simple", "P", AsPsi(e.v)), "Q", 1, f)
                     ELSE Call("P", "T", convert_to_si("simple", "T", AsDegF(e.v)), "Q", 1, f)
                r == Ask(cp_ref[f], c)
            IN  /\ log' = <<c>>
                /\ IF r.ok
                   THEN /\ sel' = [sel EXCEPT
                               !.low_pressure = IF evap_choice = "1" THEN c.v1 ELSE r.v,
                               !.saturation_temp_evap = IF evap_choice = "1" THEN r.v ELSE c.v1,
                               !.evap_choice = evap_choice, !.evap_typed = e.v]
                        /\ pc' = "cond"
                        /\ Say("", "")
                   ELSE /\ sel' = IF evap_choice = "1"
                                  THEN [sel EXCEPT !.low_pressure = c.v1]
                                  ELSE [sel EXCEPT !.saturation_temp_evap = c.v1]
                        /\ Say("Invalid numeric input", LibraryError)
                        /\ UNCHANGED pc
    /\ UNCHANGED <<frontend, cp_ref, pane, runs, conv>>

CondOrderError_unchecked(saturation_temp_cond, saturation_temp_evap, high_pressure, low_pressure) ==
    ""

CondOrderError_strict(saturation_temp_cond, saturation_temp_evap, high_pressure, low_pressure) ==
    IF saturation_temp_cond < saturation_temp_evap THEN "ERROR temperature order"
    ELSE IF high_pressure < low_pressure THEN "ERROR pressure order"
    ELSE ""

\* the ordering checks of the condenser loop: "" when both pass
CondOrderError(saturation_temp_cond, saturation_temp_evap, high_pressure, low_pressure) ==
    IF saturation_temp_cond <= saturation_temp_evap THEN "ERROR temperature order"
    ELSE IF high_pressure <= low_pressure THEN "ERROR pressure order"
    ELSE ""

AssignCond_to_evaporator(s, high_pressure, saturation_temp_cond) ==
    [s EXCEPT !.low_pressure = high_pressure, !.saturation_temp_evap = saturation_temp_cond]

\* the two assignments of a condenser entry the library resolved
AssignCond(s, high_pressure, saturation_temp_cond) ==
    [s EXCEPT !.high_pressure = high_pressure, !.saturation_temp_cond = saturation_temp_cond]

\* one pass of the condenser input loop
ConsoleCond(cond_choice, e) ==
    /\ frontend = "console" /\ pc = "cond"
    /\ typed' = [field |-> "cond", e |-> e]
    /\ IF cond_choice \notin {"1", "2"}
       THEN Say("Invalid choice", "") /\ UNCHANGED <<pc, sel, log>>
       ELSE IF ~e.num
       THEN Say("Invalid numeric input", "ValueError") /\ UNCHANGED <<pc, sel, log>>
       ELSE LET f == sel.selected_refrigerant
                c == IF cond_choice = "1"
                     THEN Call("T", "P", convert_to_si("simple", "P", AsPsi(e.v)), "Q", 1, f)
                     ELSE Call("P", "T", convert_to_si("simple", "T", AsDegF(e.v)), "Q", 1, f)
                r == Ask(cp_ref[f], c)
                high_pressure == IF cond_choice = "1" THEN c.v1 ELSE r.v
                saturation_temp_cond == IF cond_choice = "1" THEN r.v ELSE c.v1
                err == CondOrderError(saturation_temp_cond, sel.saturation_temp_evap,
                                      high_pressure, sel.low_pressure)
            IN  /\ log' = <<c>>
                /\ IF r.ok
                   THEN /\ sel' = [AssignCond(sel, high_pressure, saturation_temp_cond) EXCEPT
                               !.cond_choice = IF err = "" THEN cond_choice ELSE @,
                               !.cond_typed = IF err = "" THEN e.v ELSE @]
                        /\ pc' = IF err = "" THEN "superheat" ELSE pc
                        /\ Say(err, "")
                   ELSE /\ sel' = IF cond_choice = "1"
                                  THEN [sel EXCEPT !.high_pressure = c.v1]
                                  ELSE [sel EXCEPT !.saturation_temp_cond = c.v1]
                        /\ Say("Invalid numeric input", LibraryError)
                        /\ UNCHANGED pc
    /\ UNCHANGED <<frontend, cp_ref, pane, runs, conv>>

\* get_limited_input: the typed number is returned when min_val <= value <= max_val
get_limited_input(e, min_val, max_val) ==
    e.num /\ min_val * 100 <= e.v /\ e.v <= max_val * 100

OffsetSimple_without_margin(v) ==
    convert_to_si("simple", "T", AsDegF(v)) - convert_to_si("simple", "T", 0)

\* convert_to_si("T", x) - convert_to_si("T", 0) + 0.001
OffsetSimple(v) ==
    convert_to_si("simple", "T", AsDegF(v)) - convert_to_si("simple", "T", 0) + Eps3

ConsoleSuperheat(e) ==
    /\ frontend = "console" /\ pc = "superheat"
    /\ typed' = [field |-> "superheat", e |-> e]
    /\ IF get_limited_input(e, 0, 30)
       THEN /\ sel' = [sel EXCEPT !.superheat = OffsetSimple(e.v), !.superheat_typed = e.v]
            /\ pc' = "subcooling"
            /\ Say("", "")
       ELSE Say("Invalid input", IF e.num THEN "" ELSE "ValueError") /\ UNCHANGED <<pc, sel>>
    /\ UNCHANGED <<frontend, cp_ref, pane, runs, log, conv>>

ConsoleSubcooling(e) ==
    /\ frontend = "console" /\ pc = "subcooling"
    /\ typed' = [field |-> "subcooling", e |-> e]
    /\ IF get_limited_input(e, 0, 30)
       THEN /\ sel' = [sel EXCEPT !.subcooling = OffsetSimple(e.v), !.subcooling_typed = e.v]
            /\ pc' = "efficiency"
            /\ Say("", "")
       ELSE Say("Invalid input", IF e.num THEN "" ELSE "ValueError") /\ UNCHANGED <<pc, sel>>
    /\ UNCHANGED <<frontend, cp_ref, pane, runs, log, conv>>

\* one pass of the efficiency loop
ConsoleEfficiency(e) ==
    /\ frontend = "console" /\ pc = "efficiency"
    /\ typed' = [field |-> "efficiency", e |-> e]
    /\ IF ~e.num THEN Say("Invalid numeric input", "ValueError") /\ UNCHANGED <<pc, sel>>
       ELSE IF 20 * 100 <= e.v /\ e.v <= 100 * 100
       THEN /\ sel' = [sel EXCEPT !.isentrop_eff = PercentToFraction(AsPercent(e.v)),
                                  !.eff_typed = e.v]
            /\ pc' = "mass_flow"
            /\ Say("", "")
       ELSE Say("Invalid efficiency", "") /\ UNCHANGED <<pc, sel>>
    /\ UNCHANGED <<frontend, cp_ref, pane, runs, log, conv>>

\* the inputs of a run as typed: the argument of Calculate, and what a pane records
Inputs(refrigerant, ref_state, evap_type, evap, cond_type, cond, superheat, subcooling, eff, mass_flow) ==
    [refrigerant |-> refrigerant, ref_state |-> ref_state,
     evap_type |-> evap_type, evap |-> evap, cond_type |-> cond_type, cond |-> cond,
     superheat |-> superheat, subcooling |-> subcooling, eff |-> eff,
     mass_flow |-> mass_flow]

TypeOfChoice(choice) == IF choice = "1" THEN "Pressure (psia)" ELSE "Temperature (degF)"

\* one pass of the mass-flow loop; an accepted entry runs the script to its end:
\* state points, metrics and the printed tables
ConsoleMassFlow(e) ==
    /\ frontend = "console" /\ pc = "mass_flow"
    /\ typed' = [field |-> "mass_flow", e |-> e]
    /\ IF ~e.num
       THEN Say("Invalid numeric input", "ValueError") /\ UNCHANGED <<pc, pane, log, runs>>
       ELSE IF ~(e.v > 0)
       THEN Say("Mass flow must be greater than 0", "") /\ UNCHANGED <<pc, pane, log, runs>>
       ELSE \E f \in {sel.selected_refrigerant} :
            \E r \in {StatePointsSimple(cp_ref[f], f, sel.low_pressure,
                           sel.saturation_temp_evap, sel.high_pressure, sel.superheat,
                           sel.subcooling, sel.isentrop_eff,
                           convert_to_si("simple", "M", AsLbMin(e.v)))} :
                /\ log' = r.calls
                /\ runs' = runs + 1
                /\ IF r.exc = "none"
                   THEN /\ pane' = [shown |-> TRUE, run |-> runs + 1, res |-> r.out,
                                    inputs |-> Inputs(f, sel.ref_state,
                                        TypeOfChoice(sel.evap_choice), Num(sel.evap_typed),
                                        TypeOfChoice(sel.cond_choice), Num(sel.cond_typed),
                                        Num(sel.superheat_typed), Num(sel.subcooling_typed),
                                        Num(sel.eff_typed), e)]
                        /\ pc' = "done"
                        /\ Say(IF r.out.warning THEN "Warning" ELSE "", "")
                   ELSE Crash(r.exc) /\ UNCHANGED pane
    /\ UNCHANGED <<frontend, sel, cp_ref, conv>>

---------------------------------------------------------------------------
(* The GUI and the dashboard: one action per press of Calculate.            *)

\* number of Calculate presses explored
MaxRuns == 2

Pressure == "Pressure (psia)"

Temperature == "Temperature (degF)"

BaseInputs == Inputs("R22", "ASHRAE", Temperature, Num(4000), Temperature, Num(11000),
                     Num(1000), Num(1000), Num(7000), Num(500))

\* what is in the form when Calculate is pressed: the base case with the fluid
\* and reference state, the two boundaries, superheat and subcooling, or
\* efficiency and mass flow changed
FormInputs ==
    {[BaseInputs EXCEPT !.refrigerant = r, !.ref_state = s] :
        r \in {"R22", "R410A", "R999"}, s \in RefStates}
    \cup {[BaseInputs EXCEPT !.evap_type = t, !.evap = a, !.cond_type = u, !.cond = b] :
        t \in {Pressure, Temperature}, u \in {Pressure, Temperature},
        a \in {Num(4000), Num(11000)}, b \in {Num(4000), Num(11000)}}
    \cup {[BaseInputs EXCEPT !.evap_type = t, !.evap = a] :
        t \in {Pressure, Temperature}, a \in BoundaryEntries}
    \cup {[BaseInputs EXCEPT !.cond_type = u, !.cond = b] :
        u \in {Pressure, Temperature}, b \in BoundaryEntries}
    \cup {[BaseInputs EXCEPT !.superheat = x] : x \in SuperheatEntries}
    \cup {[BaseInputs EXCEPT !.subcooling = x] : x \in SuperheatEntries}
    \cup {[BaseInputs EXCEPT !.superheat = x, !.subcooling = x] : x \in {Num(0), Num(3000)}}
    \cup {[BaseInputs EXCEPT !.eff = x] : x \in EfficiencyEntries}
    \cup {[BaseInputs EXCEPT !.mass_flow = x] : x \in MassFlowEntries}

InputError_without_ranges(in) ==
    IF \E k \in {"evap", "cond", "superheat", "subcooling", "eff", "mass_flow"} : ~in[k].num
    THEN "could not convert string to float"
    ELSE ""

\* the try block of calculate: "" when every float() succeeds and every range
\* check passes, else the text of the ValueError
InputError(in) ==
    IF ~in.evap.num THEN "could not convert string to float"
    ELSE IF ~in.cond.num THEN "could not convert string to float"
    ELSE IF ~in.superheat.num THEN "could not convert string to float"
    ELSE IF ~in.subcooling.num THEN "could not convert string to float"
    ELSE IF ~in.eff.num THEN "could not convert string to float"
    ELSE IF ~in.mass_flow.num THEN "could not convert string to float"
    ELSE IF ~(0 <= in.superheat.v /\ in.superheat.v <= 30 * 100)
    THEN "Superheat must be 0-30 F."
    ELSE IF ~(0 <= in.subcooling.v /\ in.subcooling.v <= 30 * 100)
    THEN "Subcooling must be 0-30 F."
    ELSE IF ~(20 * 100 <= in.eff.v /\ in.eff.v <= 100 * 100)
    THEN "Isentropic efficiency must be 20-100."
    ELSE IF in.mass_flow.v <= 0 THEN "Mass flow rate must be positive."
    ELSE ""

\* calculate after its validation and set_reference_state, on the values float()
\* made of the entries; ref is the refrigerant's reference state in the library
RunGUI(ref, in) ==
    CycleGUI(ref, in.refrigerant, in.ref_state, in.evap_type,
             IF IsPressure(in.evap_type) THEN AsPsi(in.evap.v) ELSE AsDegF(in.evap.v),
             in.cond_type,
             IF IsPressure(in.cond_type) THEN AsPsi(in.cond.v) ELSE AsDegF(in.cond.v),
             AsDegF(in.superheat.v), AsDegF(in.subcooling.v),
             AsPercent(in.eff.v), AsLbMin(in.mass_flow.v))

\* RefrigerationCycleGUI.calculate
calculate(in) ==
    /\ frontend = "gui" /\ runs < MaxRuns
    /\ runs' = runs + 1
    /\ typed' = in
    /\ IF InputError(in) /= ""
       THEN Say("Input Error", "ValueError") /\ log' = <<>> /\ UNCHANGED <<cp_ref, pane>>
       ELSE IF ~SetRefOk(in.refrigerant, in.ref_state)
       THEN /\ Say("Traceback", LibraryError)
            /\ log' = <<SetRefCall(in.refrigerant, in.ref_state)>>
            /\ UNCHANGED <<cp_ref, pane>>
       ELSE \E library \in {set_reference_state(cp_ref, in.refrigerant, in.ref_state)} :
            \E r \in {RunGUI(library[in.refrigerant], in)} :
                /\ cp_ref' = library
                /\ log' = <<SetRefCall(in.refrigerant, in.ref_state)>> \o r.calls
                /\ IF r.exc = "none"
                   THEN /\ pane' = [shown |-> TRUE, run |-> runs + 1, res |-> r.out,
                                    inputs |-> in]
                        /\ Say("", "")
                   ELSE Say("Traceback", r.exc) /\ UNCHANGED pane
    /\ UNCHANGED <<frontend, pc, sel, conv>>

\* st.number_input(min_value, max_value, value): the widget holds the typed
\* number when it is within its limits and keeps its value otherwise
number_input(e, has_min, min_value, has_max, max_value, value) ==
    IF e.num /\ (has_min => min_value <= e.v) /\ (has_max => e.v <= max_value)
    THEN e ELSE Num(value)

\* the sidebar: what the widgets hold after the user typed in
Sidebar(in) ==
    Inputs(in.refrigerant, in.ref_state,
           in.evap_type,
           number_input(in.evap, FALSE, 0, FALSE, 0,
                        IF in.evap_type = Temperature THEN 4000 ELSE 8500),
           in.cond_type,
           number_input(in.cond, FALSE, 0, FALSE, 0,
                        IF in.cond_type = Temperature THEN 11000 ELSE 26000),
           number_input(in.superheat, TRUE, 0, TRUE, 3000, 1000),
           number_input(in.subcooling, TRUE, 0, TRUE, 3000, 1000),
           number_input(in.eff, TRUE, 2000, TRUE, 10000, 7000),
           number_input(in.mass_flow, TRUE, 10, FALSE, 0, 500))

\* the body of "if st.button("Calculate")" after set_reference_state, on the
\* values the widgets hold; ref is the refrigerant's reference state in the library
RunStreamlit(ref, w) ==
    CycleStreamlit(ref, w.refrigerant, w.ref_state, w.evap_type,
                   IF IsPressure(w.evap_type) THEN AsPsi(w.evap.v) ELSE AsDegF(w.evap.v),
                   w.cond_type,
                   IF IsPressure(w.cond_type) THEN AsPsi(w.cond.v) ELSE AsDegF(w.cond.v),
                   AsDegF(w.superheat.v), AsDegF(w.subcooling.v),
                   AsPercent(w.eff.v), AsLbMin(w.mass_flow.v))

\* main() of the dashboard on a press of Calculate
main(in) ==
    /\ frontend = "dashboard" /\ runs < MaxRuns
    /\ in.refrigerant \in Refrigerants
    /\ runs' = runs + 1
    /\ typed' = in
    /\ \E w \in {Sidebar(in)} :
       \E library \in {set_reference_state(cp_ref, w.refrigerant, w.ref_state)} :
       \E r \in {RunStreamlit(library[w.refrigerant], w)} :
           /\ cp_ref' = library
           /\ log' = <<SetRefCall(w.refrigerant, w.ref_state)>> \o r.calls
           /\ IF r.exc = "none"
              THEN /\ pane' = [shown |-> TRUE, run |-> runs + 1, res |-> r.out, inputs |-> w]
                   /\ Say("", "")
              ELSE /\ pane' = NoPane
                   /\ Say("Calculation Error", r.exc)
    /\ UNCHANGED <<frontend, pc, sel, conv>>

\* main() of the dashboard on any other rerun (a widget changed): the page is
\* drawn again without results
Rerun ==
    /\ frontend = "dashboard"
    /\ pane' = NoPane
    /\ Say("", "")
    /\ log' = <<>>
    /\ UNCHANGED <<frontend, pc, sel, cp_ref, runs, typed, conv>>

Next ==
    \/ \E e \in RefrigerantEntries : ConsoleRefrigerant(e)
    \/ \E e \in RefStateEntries : ConsoleRefState(e)
    \/ \E ch \in {"1", "2", "3"}, e \in BoundaryEntries : ConsoleEvap(ch, e)
    \/ \E ch \in {"1", "2", "3"}, e \in BoundaryEntries : ConsoleCond(ch, e)
    \/ \E e \in SuperheatEntries : ConsoleSuperheat(e)
    \/ \E e \in SuperheatEntries : ConsoleSubcooling(e)
    \/ \E e \in EfficiencyEntries : ConsoleEfficiency(e)
    \/ \E e \in MassFlowEntries : ConsoleMassFlow(e)
    \/ \E in \in FormInputs : calculate(in)
    \/ \E in \in FormInputs : main(in)
    \/ Rerun

Spec == Init /\ [][Next]_vars

---------------------------------------------------------------------------
(* The console script on its own, with a user who goes on typing: at every  *)
(* prompt the script waits at, an entry that the prompt accepts is typed in  *)
(* the end.                                                                 *)

InitConsole == Init /\ frontend = "console"

\* the condenser loop accepts v degF typed as a temperature: the library
\* resolves the pressure and both ordering checks pass
CondenserAccepted(v) ==
    \E c \in {Call("P", "T", convert_to_si("simple", "T", AsDegF(v)), "Q", 1,
                   sel.selected_refrigerant)} :
        \E r \in {Ask(cp_ref[sel.selected_refrigerant], c)} :
            /\ r.ok
            /\ CondOrderError(c.v1, sel.saturation_temp_evap, r.v, sel.low_pressure) = ""

\* the next two whole degrees (degF, in hundredths) above the evaporator's
\* saturation temperature
DegreesAboveEvaporator ==
    {((convert_from_si("simple", "T", sel.saturation_temp_evap) \div Scale) + d) * 100 : d \in {1, 2}}

\* what the user may type at the condenser value prompt: the boundary values, or
\* a temperature just above the evaporator's
CondenserEntries ==
    BoundaryEntries \cup (IF pc = "cond" THEN {Num(v) : v \in DegreesAboveEvaporator} ELSE {})

\* the entries the user of this specification types at the four last prompts:
\* text, a number out of range, numbers in range
OffsetsTyped == {NonNumeric, Num(1000), Num(3001)}

EfficienciesTyped == {NonNumeric, Num(1999), Num(2000), Num(7000)}

MassFlowsTyped == {NonNumeric, Num(0), Num(500)}

NextConsole ==
    \/ \E e \in RefrigerantEntries : ConsoleRefrigerant(e)
    \/ \E e \in RefStateEntries : ConsoleRefState(e)
    \/ \E ch \in {"1", "2", "3"}, e \in BoundaryEntries : ConsoleEvap(ch, e)
    \/ \E e \in CondenserEntries : \E ch \in {"1", "2", "3"} : ConsoleCond(ch, e)
    \/ \E e \in OffsetsTyped : ConsoleSuperheat(e)
    \/ \E e \in OffsetsTyped : ConsoleSubcooling(e)
    \/ \E e \in EfficienciesTyped : ConsoleEfficiency(e)
    \/ \E e \in MassFlowsTyped : ConsoleMassFlow(e)

\* a step in which the prompt accepted its entry: the script leaves the prompt
\* for the code after it (an index the script dies of is not accepted)
AcceptedEntry ==
    /\ NextConsole
    /\ pc' /= pc
    /\ pc' = "crashed" => pc = "mass_flow"

SpecConsole == InitConsole /\ [][NextConsole]_vars /\ WF_vars(AcceptedEntry)

---------------------------------------------------------------------------
(* The conversion helpers on their own: an SI value is converted to IP      *)
(* units by convert_from_si and back by convert_to_si of the same file.     *)

\* SI values per property kind, on the kind's grid: 273.15 K .. 310.93 K,
\* 101.3 kPa .. 1.79 MPa, 250 .. 450 kJ/kg, 1.0 .. 1.8 kJ/(kg K),
\* 10 .. 1112 kg/m^3, 0.00038 .. 0.0756 kg/s, 1000 .. 5640 W
ConvValues(kind) ==
    CASE kind = "T" -> {2731500, 2775944, 2831500, 3109269}
      [] kind = "P" -> {1013, 3601, 14724, 17927}
      [] kind = "H" -> {2500, 3397, 4191, 4503}
      [] kind = "S" -> {1000, 1287, 1573, 1800}
      [] kind = "D" -> {1000, 1731, 100000, 111176}
      [] kind = "M" -> {38, 100, 3780, 7560}
      [] kind = "Heat" -> {1000, 2638, 3001, 5640}

InitConv ==
    /\ frontend = "helpers"
    /\ pc = "idle"
    /\ sel = NoSel
    /\ cp_ref = [f \in Refrigerants |-> DefaultRef]
    /\ pane = NoPane
    /\ msg = ""
    /\ runs = 0
    /\ log = <<>>
    /\ typed = NoTyped
    /\ exc = ""
    /\ \E file \in Files, kind \in Kinds :
          \E v \in ConvValues(kind) :
             conv = [file |-> file, kind |-> kind, v |-> v, stage |-> "si", cur |-> v]

\* ip = convert_from_si(kind, v)
ConvertFromSI ==
    /\ conv.stage = "si"
    /\ conv' = [conv EXCEPT !.stage = "ip",
                            !.cur = convert_from_si(conv.file, conv.kind, conv.cur)]
    /\ UNCHANGED <<frontend, pc, sel, cp_ref, pane, msg, runs, log, typed, exc>>

\* back = convert_to_si(kind, ip)
ConvertToSI ==
    /\ conv.stage = "ip"
    /\ conv' = [conv EXCEPT !.stage = "back",
                            !.cur = convert_to_si(conv.file, conv.kind, conv.cur)]
    /\ UNCHANGED <<frontend, pc, sel, cp_ref, pane, msg, runs, log, typed, exc>>

NextConv == ConvertFromSI \/ ConvertToSI

SpecConv == InitConv /\ [][NextConv]_vars

---------------------------------------------------------------------------
(* Properties.                                                              *)

\* the front end shows the state table and the metrics of a completed run
Displayed == pane.shown

\* the displayed run is the latest Calculate (GUI, dashboard) or the script's run
Fresh == pane.shown /\ pane.run = runs

\* C1 as stated: in every displayed run of any of the three front ends,
\* heat_rejected equals compressor_work + heat_removed exactly.
C1_ExactBalance ==
    Displayed =>
        pane.res.heat_rejected = pane.res.compressor_work + pane.res.heat_removed

\* C1 amended: in every displayed run of any of the three front ends,
\* heat_rejected equals compressor_work + heat_removed up to the rounding of the
\* three products: the two sides differ by at most one step of the power grid.
C1_BalanceWithinRounding ==
    Displayed =>
        Abs(pane.res.heat_rejected
            - (pane.res.compressor_work + pane.res.heat_removed)) <= 1

\* a displayed run whose two sides differ, by one rounding step
C1_Witness ==
    /\ Displayed
    /\ pane.res.compressor_work > 0 /\ pane.res.heat_removed > 0
    /\ pane.res.heat_rejected /= pane.res.compressor_work + pane.res.heat_removed

\* C2: in every displayed run the COP is heat_removed / compressor_work (the
\* nearest ratio-grid value) when compressor_work is not zero and 0 when it is
\* zero, and no prompt or Calculate ends in a ZeroDivisionError.
C2_COP ==
    /\ exc /= "ZeroDivisionError"
    /\ Displayed =>
          IF pane.res.compressor_work /= 0
          THEN 2 * Abs(pane.res.COP * pane.res.compressor_work
                       - pane.res.heat_removed * Scale)
                  <= Abs(pane.res.compressor_work)
          ELSE pane.res.COP = 0

\* a displayed run with zero compressor work, and so a COP of 0
C2_Witness ==
    /\ Displayed
    /\ pane.res.compressor_work = 0
    /\ pane.res.heat_removed /= 0
    /\ pane.res.COP = 0

\* C3 as stated: in every displayed run of any front end the state-2 enthalpy is
\* at least the state-1 enthalpy.
C3_CompressionRaisesEnthalpy ==
    Displayed => pane.res.states[2].H >= pane.res.states[1].H

\* C3 amended: the state-2 enthalpy is at least the state-1 enthalpy in every
\* displayed run of the console, and in every displayed run of the GUI and the
\* dashboard whose condenser pressure is not below its evaporator pressure.
C3_CompressionRaisesEnthalpyWhenOrdered ==
    Displayed /\ (frontend = "console"
                  \/ pane.res.states[2].P >= pane.res.states[1].P) =>
        pane.res.states[2].H >= pane.res.states[1].H

\* a displayed GUI run with the condenser above the evaporator
C3_Witness ==
    /\ Displayed /\ frontend = "gui"
    /\ pane.res.states[2].P > pane.res.states[1].P
    /\ pane.res.states[2].H > pane.res.states[1].H

\* C4: convert_to_si(kind, convert_from_si(kind, v)) = v for every kind of
\* {T, P, H, S, D, M, Heat} in each of the three files.
C4_RoundTrip ==
    conv.stage = "back" => conv.cur = conv.v

\* C5: in the console, once the condenser loop is left (the script is at a later
\* prompt, has printed its tables, or has ended in the state points), the
\* condenser saturation temperature and pressure are strictly greater than the
\* evaporator's.
C5_CondenserAboveEvaporator ==
    frontend = "console"
    /\ (pc \in {"superheat", "subcooling", "efficiency", "mass_flow", "done"}
        \/ (pc = "crashed" /\ typed.field = "mass_flow")) =>
        /\ sel.saturation_temp_cond > sel.saturation_temp_evap
        /\ sel.high_pressure > sel.low_pressure

\* the console has printed its tables, with state 2 at the higher pressure
C5_Witness ==
    /\ frontend = "console" /\ pc = "done" /\ Displayed
    /\ pane.res.states[2].P > pane.res.states[1].P

\* C6: whenever the property library raises (set_reference_state or any
\* PropsSI query), the user is shown one of the program's own error messages,
\* the program goes on, and no table is displayed for that run.
C6_LibraryErrorReported ==
    exc = LibraryError =>
        /\ msg \in UserMessages
        /\ pc /= "crashed"
        /\ ~Fresh

\* C7: a non-numeric entry at a numeric input of the console or the GUI is
\* caught and reported with one of the program's messages: the program does not
\* end in a traceback and no calculation starts.
C7_NonNumericCaught ==
    /\ frontend = "console" /\ typed.field /= "" /\ ~typed.e.num =>
          pc /= "crashed" /\ msg \in UserMessages /\ ~Displayed
    /\ frontend = "gui" /\ runs > 0
       /\ (\E k \in {"evap", "cond", "superheat", "subcooling", "eff", "mass_flow"} :
              ~typed[k].num) =>
          msg = "Input Error" /\ log = <<>>

\* the typed values of a run are numbers within the documented ranges
InRanges(in) ==
    /\ \A k \in {"evap", "cond", "superheat", "subcooling", "eff", "mass_flow"} : in[k].num
    /\ 0 <= in.superheat.v /\ in.superheat.v <= 3000
    /\ 0 <= in.subcooling.v /\ in.subcooling.v <= 3000
    /\ 2000 <= in.eff.v /\ in.eff.v <= 10000
    /\ in.mass_flow.v > 0

\* the entry typed at a console prompt is within the documented range
PromptInRange(field, e) ==
    /\ e.num
    /\ field \in {"superheat", "subcooling"} => 0 <= e.v /\ e.v <= 3000
    /\ field = "efficiency" => 2000 <= e.v /\ e.v <= 10000
    /\ field = "mass_flow" => e.v > 0

\* C8: every displayed run was computed from superheat and subcooling in
\* [0, 30], efficiency in [20, 100] and mass flow > 0; every front end accepts
\* every value within these ranges (the value typed is the value computed
\* with); the console and the GUI answer an out-of-range entry with a message
\* and no calculation.
C8_Ranges ==
    /\ Displayed => InRanges(pane.inputs)
    /\ frontend \in {"gui", "dashboard"} /\ runs > 0 /\ InRanges(typed) =>
          msg /= "Input Error" /\ (Fresh => pane.inputs = typed)
    /\ frontend = "gui" /\ runs > 0 /\ ~InRanges(typed) =>
          msg = "Input Error" /\ log = <<>>
    /\ frontend = "console"
       /\ typed.field \in {"superheat", "subcooling", "efficiency", "mass_flow"} =>
          IF PromptInRange(typed.field, typed.e)
          THEN msg \notin UserMessages
          ELSE msg \in UserMessages /\ pc = typed.field /\ ~Displayed

\* what a run reports: the four state points and the metrics
Reported(res) ==
    <<res.states, res.compressor_work, res.heat_removed, res.heat_rejected, res.COP,
      res.tons, res.comp_kW, res.kw_per_ton>>

\* the PropsSI queries among calls
Queries(calls) ==
    {calls[i] : i \in {j \in DOMAIN calls : calls[j].out /= "set_reference_state"}}

\* C9: for the inputs of every displayed run, the three front ends report the
\* same state points and metrics and issue the same state-point queries with
\* the same arguments.
C9_SameComputation ==
    Fresh =>
        \A g \in {RunGUI(pane.inputs.ref_state, pane.inputs)},
           d \in {RunStreamlit(pane.inputs.ref_state, pane.inputs)} :
        \A boundary \in {{g.calls[1], g.calls[2]}} :
            /\ g.exc = "none" /\ d.exc = "none"
            /\ Reported(pane.res) = Reported(g.out)
            /\ Reported(pane.res) = Reported(d.out)
            /\ Queries(g.calls) = Queries(d.calls)
            /\ Queries(log) \ boundary = Queries(g.calls) \ boundary

\* C10: in the GUI, after every Calculate, a displayed table is the one that
\* Calculate produced.
C10_NoStaleResults ==
    frontend = "gui" /\ Displayed => pane.run = runs

\* C11: in the GUI and the dashboard, the state table and the metrics a Calculate
\* displays are those of its own inputs alone: they are what the computation
\* gives for the displayed inputs under the reference state selected in them,
\* whatever Calculate actions (other refrigerants or reference states,
\* successful or failed) came before and whatever reference states those left
\* in the library.  Two Calculate actions with identical inputs therefore
\* display identical results.
C11_ResultDependsOnInputsOnly ==
    frontend \in {"gui", "dashboard"} /\ Fresh =>
        \A r \in {IF frontend = "gui" THEN RunGUI(pane.inputs.ref_state, pane.inputs)
                  ELSE RunStreamlit(pane.inputs.ref_state, pane.inputs)} :
            r.exc = "none" /\ pane.res = r.out

\* a second Calculate of the GUI displays its results after an earlier Calculate
\* left a reference state for another refrigerant in the library
C11_Witness ==
    /\ frontend = "gui" /\ runs >= 2 /\ Fresh
    /\ cp_ref[pane.inputs.refrigerant] = pane.inputs.ref_state
    /\ \E f \in Refrigerants \ {pane.inputs.refrigerant} : cp_ref[f] /= DefaultRef

\* the refrigerant, the state points and the typed efficiency of the displayed run
Fluid == pane.inputs.refrigerant

Pt(i) == pane.res.states[i]

\* the library call is among the queries of the latest run
Asked(c) == \E i \in DOMAIN log : log[i] = c

\* C12: in every displayed run of any front end, h2 = h1 + (h2s - h1)/eta (the
\* quotient rounded to the enthalpy grid), where eta is the typed efficiency
\* percentage divided by 100 and h2s is what the library returns for enthalpy at
\* the condenser pressure and the state-1 entropy; at 100 % h2 = h2s; and the
\* run queried temperature, density and entropy at the condenser pressure and h2.
C12_ActualEnthalpy ==
    Displayed =>
        \A eta \in {RoundDiv(AsPercent(pane.inputs.eff.v), 100)} :
        \A ideal \in {Call("H", "P", Pt(2).P, "S", Pt(1).S, Fluid)} :
            /\ eta > 0
            /\ 2 * Abs((Pt(2).H - Pt(1).H) * eta - (pane.res.h2s - Pt(1).H) * Scale) <= eta
            /\ pane.res.h2s = Ask(pane.inputs.ref_state, ideal).v
            /\ pane.inputs.eff.v = 100 * 100 => Pt(2).H = pane.res.h2s
            /\ Fresh =>
                  /\ Asked(ideal)
                  /\ \A out \in {"T", "D", "S"} :
                        Asked(Call(out, "P", Pt(2).P, "H", Pt(2).H, Fluid))

\* a displayed run at 100 % efficiency: h2 is the isentropic enthalpy, above h1
C12_Witness ==
    /\ Displayed /\ pane.inputs.eff.v = 100 * 100
    /\ Pt(2).H = pane.res.h2s /\ pane.res.h2s > Pt(1).H

\* the pressure a typed boundary resolves to: the typed pressure in Pa, or the
\* saturated-vapour pressure the library returns at the typed temperature
Resolved(type, e) ==
    IF IsPressure(type) THEN PsiToPa(AsPsi(e.v))
    ELSE Ask(pane.inputs.ref_state,
             Call("P", "T", DegFToK(AsDegF(e.v)), "Q", 1, Fluid)).v

\* C13: in every displayed run of any front end, state 4 has the enthalpy of
\* state 3, states 1 and 4 are at the evaporator pressure and states 2 and 3 at
\* the condenser pressure, and these two pressures are the ones the typed
\* evaporator and condenser boundaries resolve to.
C13_StateTable ==
    Displayed =>
        /\ Pt(4).H = Pt(3).H
        /\ Pt(1).P = Resolved(pane.inputs.evap_type, pane.inputs.evap)
        /\ Pt(4).P = Pt(1).P
        /\ Pt(2).P = Resolved(pane.inputs.cond_type, pane.inputs.cond)
        /\ Pt(3).P = Pt(2).P

\* a displayed GUI run with the evaporator given as a pressure and the condenser
\* as a temperature
C13_Witness ==
    /\ Displayed /\ frontend = "gui"
    /\ IsPressure(pane.inputs.evap_type) /\ ~IsPressure(pane.inputs.cond_type)
    /\ Pt(1).P /= Pt(2).P

\* C14: in every run that displays its table, in any of the three front ends,
\* the vapour quality of state 4 was queried at the evaporator pressure and h4,
\* and a warning is shown exactly when that quality is outside [0, 1]; the table
\* and the metrics are displayed either way.
C14_QualityWarning ==
    Fresh =>
        \A quality \in {Call("Q", "P", Pt(4).P, "H", Pt(4).H, Fluid)} :
            /\ Asked(quality)
            /\ msg = "Warning" <=>
                  ~(0 <= Ask(pane.inputs.ref_state, quality).v
                    /\ Ask(pane.inputs.ref_state, quality).v <= Scale)

\* the typed degF difference in K: 5/9 K per degF
DiffK(e) == RoundDiv(AsDegF(e.v) * 5, 9)

\* the evaporator saturation temperature of the displayed run: the typed
\* temperature in K, or the saturated-vapour temperature at the typed pressure
EvapSatTemp ==
    IF IsPressure(pane.inputs.evap_type)
    THEN Ask(pane.inputs.ref_state, Call("T", "P", Pt(1).P, "Q", 1, Fluid)).v
    ELSE DegFToK(AsDegF(pane.inputs.evap.v))

\* the condenser saturated-liquid temperature of the displayed run
CondSatLiqTemp == Ask(pane.inputs.ref_state, Call("T", "P", Pt(2).P, "Q", 0, Fluid)).v

\* C15 as stated: in every displayed run, T1 is the evaporator saturation
\* temperature plus the typed superheat times 5/9, and T3 is the condenser
\* saturated-liquid temperature minus the typed subcooling times 5/9, for every
\* accepted superheat and subcooling, 0 included.
C15_SuperheatSubcooling ==
    Displayed =>
        /\ Pt(1).T = EvapSatTemp + DiffK(pane.inputs.superheat)
        /\ Pt(3).T = CondSatLiqTemp - DiffK(pane.inputs.subcooling)

\* C15 amended: T1 is above the evaporator saturation temperature plus the
\* superheat difference, and T3 below the condenser saturated-liquid temperature
\* minus the subcooling difference, by the margin the program adds: 0.001 K in
\* the console (one grid step more or less for the rounding of the two
\* conversions it subtracts); in the GUI and the dashboard 0.0001 K when the
\* typed value is 0 and nothing otherwise.  T1 is always strictly above the
\* saturation temperature and T3 strictly below the saturated-liquid temperature.
C15_SuperheatSubcoolingWithMargin ==
    Displayed =>
        \A up \in {Pt(1).T - (EvapSatTemp + DiffK(pane.inputs.superheat))},
           down \in {(CondSatLiqTemp - DiffK(pane.inputs.subcooling)) - Pt(3).T} :
            /\ Pt(1).T > EvapSatTemp /\ Pt(3).T < CondSatLiqTemp
            /\ IF frontend = "console"
               THEN Abs(up - Eps3) <= 1 /\ Abs(down - Eps3) <= 1
               ELSE /\ up = (IF pane.inputs.superheat.v = 0 THEN Eps4 ELSE 0)
                    /\ down = (IF pane.inputs.subcooling.v = 0 THEN Eps4 ELSE 0)

\* a displayed GUI run with superheat and subcooling 0: T1 and T3 are 0.0001 K
\* off the saturation temperatures
C15_Witness ==
    /\ Displayed /\ frontend = "gui"
    /\ pane.inputs.superheat.v = 0 /\ pane.inputs.subcooling.v = 0
    /\ Pt(1).T = EvapSatTemp + Eps4 /\ Pt(3).T = CondSatLiqTemp - Eps4

OrderErrors == {"ERROR temperature order", "ERROR pressure order"}

\* C16: the GUI and the dashboard never show an ordering error, and every
\* Calculate of theirs that got past the input checks and met no library error
\* made all its queries (set_reference_state, the two boundaries and the
\* fourteen state-point queries) and displays its table and metrics, whatever
\* the order of the two boundaries; the console displays a table only for a
\* condenser saturation temperature and pressure strictly above the evaporator's.
C16_OrderingCheckedInConsoleOnly ==
    /\ frontend \in {"gui", "dashboard"} =>
          /\ msg \notin OrderErrors
          /\ log /= <<>> /\ exc = "" => Fresh /\ msg = "" /\ Len(log) = 17
    /\ frontend = "console" /\ Displayed =>
          /\ Pt(2).P > Pt(1).P
          /\ sel.saturation_temp_cond > sel.saturation_temp_evap

\* the GUI displays a table whose condenser pressure is below the evaporator's
C16_Witness ==
    /\ frontend = "gui" /\ Fresh /\ msg = ""
    /\ Pt(2).P < Pt(1).P

C18_EvaporatorKept ==
    [][frontend = "console"
       /\ pc \in {"cond", "superheat", "subcooling", "efficiency", "mass_flow"} =>
          /\ sel'.low_pressure = sel.low_pressure
          /\ sel'.saturation_temp_evap = sel.saturation_temp_evap
          /\ pc' \notin {"refrigerant", "ref_state", "evap"}
          /\ pc = "cond" =>
                /\ pc' \in {"cond", "superheat"}
                /\ pc' = "cond" <=> msg' \in UserMessages]_vars

\* the console back at the condenser prompt after an entry that the ordering
\* check rejected: the rejected values are in high_pressure and
\* saturation_temp_cond, at or below the evaporator's
C18_Witness ==
    /\ frontend = "console" /\ pc = "cond" /\ typed.field = "cond"
    /\ msg \in OrderErrors
    /\ sel.high_pressure <= sel.low_pressure
    /\ sel.low_pressure > 0

\* the refrigerant and the reference state selected for the run in progress
Selected ==
    IF frontend = "console"
    THEN [refrigerant |-> sel.selected_refrigerant, ref_state |-> sel.ref_state]
    ELSE [refrigerant |-> typed.refrigerant, ref_state |-> typed.ref_state]

\* C19: in each front end, every library call of a run names the selected
\* refrigerant; a set_reference_state call sets the selected reference state
\* for it; and whenever a property query has been made, the library holds the
\* selected reference state for the selected refrigerant, set earlier in the
\* same run: in the GUI and the dashboard by the first call of the Calculate.
C19_ReferenceStateBeforeQueries ==
    log /= <<>> =>
        /\ \A i \in DOMAIN log :
              /\ log[i].fluid = Selected.refrigerant
              /\ IF log[i].out = "set_reference_state"
                 THEN log[i] = SetRefCall(Selected.refrigerant, Selected.ref_state)
                 ELSE /\ cp_ref[Selected.refrigerant] = Selected.ref_state
                      /\ Selected.ref_state \in RefStates
        /\ frontend \in {"gui", "dashboard"} =>
              /\ log[1].out = "set_reference_state"
              /\ \A i \in DOMAIN log : i > 1 => log[i].out /= "set_reference_state"

\* a Calculate of the GUI with a reference state other than the first of the
\* list has set it and made its queries
C19_Witness ==
    /\ frontend = "gui" /\ Len(log) > 1
    /\ log[1] = SetRefCall(typed.refrigerant, typed.ref_state)
    /\ typed.ref_state = "NBP" /\ cp_ref[typed.refrigerant] = "NBP"
    /\ log[2].out /= "set_reference_state"

\* q is the float quotient a / b on the ratio grid (b > 0): the nearest grid value
IsQuotient(q, a, b) == 2 * Abs(q * b - a * Scale) <= b

\* C20: in every displayed run of any front end, tons of refrigeration is
\* heat_removed in Btu/hr divided by 12000, the compressor power in kW is
\* compressor_work divided by 1000, and kW per ton is the kW divided by the tons
\* when the tons are greater than 0 and infinity when they are 0 or negative;
\* no prompt or Calculate ends in a ZeroDivisionError.
C20_TonsAndKwPerTon ==
    /\ exc /= "ZeroDivisionError"
    /\ Displayed =>
          /\ pane.res.rem_btu_hr = WattToBtuHr(pane.res.heat_removed)
          /\ IsQuotient(pane.res.tons, pane.res.rem_btu_hr, 12000)
          /\ IsQuotient(pane.res.comp_kW, pane.res.compressor_work, 1000)
          /\ IF pane.res.tons > 0
             THEN /\ ~pane.res.kw_per_ton.inf
                  /\ IsQuotient(pane.res.kw_per_ton.v, pane.res.comp_kW, pane.res.tons)
             ELSE pane.res.kw_per_ton.inf

\* a displayed run that removes no heat: kW per ton is reported as infinity
C20_Witness ==
    /\ Displayed
    /\ pane.res.tons <= 0
    /\ pane.res.kw_per_ton.inf

\* the prompts of the console in the order of the script, then its two ends
PromptOrder ==
    <<"refrigerant", "ref_state", "evap", "cond", "superheat", "subcooling",
      "efficiency", "mass_flow">>

Rank(p) ==
    IF \E i \in DOMAIN PromptOrder : PromptOrder[i] = p
    THEN CHOOSE i \in DOMAIN PromptOrder : PromptOrder[i] = p
    ELSE Len(PromptOrder) + 1

\* some condenser temperature in whole degF would be accepted at the prompt
SomeCondenserAccepted == \E v \in DegreesAboveEvaporator : CondenserAccepted(v)

\* C21: the console asks its prompts in the order refrigerant, reference state,
\* evaporator, condenser, superheat, subcooling, efficiency, mass flow and
\* never returns to an earlier one; at the condenser prompt some condenser
\* entry is acceptable; and with a user who in the end types an acceptable
\* entry at every prompt, the script prints the state table and the metrics
\* and ends (unless an index the first two prompts cannot take ended it).
C21_PromptsThenTables ==
    /\ [][/\ Rank(pc') \in {Rank(pc), Rank(pc) + 1} \/ pc' = "crashed"
          /\ pc \in {"done", "crashed"} => pc' = pc]_vars
    /\ [](pc = "cond" => SomeCondenserAccepted)
    /\ pc = "refrigerant" ~>
          \/ pc = "done" /\ Displayed
          \/ pc = "crashed" /\ typed.field \in {"refrigerant", "ref_state"}

===========================================================================
